---- MODULE Spec2Model ----
(***************************************************************************)
(* Model of the CredentialCard component                                   *)
(* (src/components/CredentialCard/index.tsx and its types module).         *)
(*                                                                         *)
(* The component is a function of its props (a credential snapshot, three  *)
(* busy flags, six callbacks) to an element tree.  The state is the props  *)
(* the host last supplied, the element tree rendered from them, and the    *)
(* last event together with the callbacks that event invoked.              *)
(*                                                                         *)
(* JavaScript values are records [t, s]: t is the typeof tag and s the     *)
(* text of a string (or the name of a function).  Identifiers and date     *)
(* strings are sequences of one-character strings, so that slicing and     *)
(* parsing are computed character by character.                            *)
(***************************************************************************)
EXTENDS Naturals, Sequences, FiniteSets, TLC

VARIABLES credential, deleting, checkingHealth, refreshingToken,
          view, event, probe

vars == <<credential, deleting, checkingHealth, refreshingToken,
          view, event, probe>>

----------------------------------------------------------------------------
(* Bounds of the model.                                                    *)

MaxIdLen == 9

MaxCount == 2

----------------------------------------------------------------------------
(* JavaScript values.                                                      *)

Undefined == [t |-> "undefined", s |-> ""]

Str(s) == [t |-> "string", s |-> s]

Fn(name) == [t |-> "function", s |-> name]

\* ToBoolean: undefined and the empty string are falsy, a function is truthy.
Truthy(v) == \/ v.t = "function"
             \/ v.t = "string" /\ Len(v.s) > 0

\* a || b
Or(a, b) == IF Truthy(a) THEN a ELSE b

Min(a, b) == IF a < b THEN a ELSE b

\* Mutant: the end index is taken as inclusive.
Slice_EndInclusive(s, start, end) ==
    SubSeq(s, Min(start, Len(s)) + 1, Min(end + 1, Len(s)))

\* String.prototype.slice(start, end) for non-negative arguments.
Slice(s, start, end) ==
    LET from == Min(start, Len(s))
        to   == Min(end, Len(s))
    IN  SubSeq(s, from + 1, to)

----------------------------------------------------------------------------
(* types.ts: the label and colour tables.  They are plain object literals, *)
(* so a property read that misses the own keys continues to                *)
(* Object.prototype, whose members are functions.                          *)

AUTH_TYPE_LABELS ==
    [oauth |-> "OAuth", claude_code |-> "Claude Code", console |-> "Console",
     setup_token |-> "Setup Token", bedrock |-> "Bedrock", ccr |-> "CCR"]

AUTH_TYPE_COLORS ==
    [oauth |-> "blue", claude_code |-> "purple", console |-> "green",
     setup_token |-> "yellow", bedrock |-> "orange", ccr |-> "gray"]

ObjectPrototype ==
    [constructor |-> "Object", toString |-> "toString", valueOf |-> "valueOf",
     hasOwnProperty |-> "hasOwnProperty"]

\* table[key] on a Record<string, string> object literal.
Get(table, key) ==
    IF key \in DOMAIN table THEN Str(table[key])
    ELSE IF key \in DOMAIN ObjectPrototype THEN Fn(ObjectPrototype[key])
    ELSE Undefined

\* The text a template literal `${v}` produces.
ToStr(v) ==
    CASE v.t = "string"   -> v.s
      [] v.t = "function" -> "function " \o v.s \o "() { [native code] }"
      [] OTHER            -> "undefined"

----------------------------------------------------------------------------
(* index.tsx: the helpers.                                                 *)

getAuthTypeIcon(authType) ==
    CASE authType = "oauth"       -> "Key"
      [] authType = "claude_code" -> "Terminal"
      [] authType = "console"     -> "Building"
      [] authType = "setup_token" -> "Lock"
      [] authType = "bedrock"     -> "Cloud"
      [] authType = "ccr"         -> "Server"
      [] OTHER                    -> "Key"

\* Mutant: setup tokens are taken to be refreshable too.
supportsTokenRefresh_WithSetupToken(authType) ==
    authType \in {"oauth", "claude_code", "console", "setup_token"}

supportsTokenRefresh(authType) ==
    authType \in {"oauth", "claude_code", "console"}

Digit == <<"0", "1", "2", "3", "4", "5", "6", "7", "8", "9">>

IsDigit(c) == \E i \in 1..10 : Digit[i] = c

DigitVal(c) == (CHOOSE i \in 1..10 : Digit[i] = c) - 1

\* A number below 100 written with two digits.
Pad2(n) == <<Digit[(n \div 10) + 1], Digit[(n % 10) + 1]>>

Num2(s, i) == 10 * DigitVal(s[i]) + DigitVal(s[i + 1])

DaysInMonth ==
    <<31, 28, 31, 30, 31, 30, 31, 31, 30, 31, 30, 31>>

NaN == [nan |-> TRUE, month |-> 0, day |-> 0, hour |-> 0, minute |-> 0]

\* new Date(dateStr) for the date-time form YYYY-MM-DDTHH:mm:ss of a common
\* year, read as local time; every other text is not a date and gives the
\* time value NaN.
DateParse(s) ==
    IF /\ Len(s) = 19
       /\ \A i \in {1, 2, 3, 4, 6, 7, 9, 10, 12, 13, 15, 16, 18, 19} : IsDigit(s[i])
       /\ s[5] = "-" /\ s[8] = "-" /\ s[11] = "T" /\ s[14] = ":" /\ s[17] = ":"
       /\ Num2(s, 6) \in 1..12
       /\ Num2(s, 9) \in 1..DaysInMonth[Num2(s, 6)]
       /\ Num2(s, 12) \in 0..23
       /\ Num2(s, 15) \in 0..59
       /\ Num2(s, 18) \in 0..59
    THEN [nan |-> FALSE, month |-> Num2(s, 6), day |-> Num2(s, 9),
          hour |-> Num2(s, 12), minute |-> Num2(s, 15)]
    ELSE NaN

InvalidDate == <<"I", "n", "v", "a", "l", "i", "d", " ", "D", "a", "t", "e">>

\* Date.prototype.toLocaleString("zh-CN", {month, day, hour, minute: "2-digit"}):
\* the text "Invalid Date" for the time value NaN, MM/DD HH:mm otherwise.  It
\* completes normally for every time value.
ToLocaleString(tv) ==
    IF tv.nan
    THEN [threw |-> FALSE, value |-> InvalidDate]
    ELSE [threw |-> FALSE,
          value |-> Pad2(tv.month) \o <<"/">> \o Pad2(tv.day) \o <<" ">>
                    \o Pad2(tv.hour) \o <<":">> \o Pad2(tv.minute)]

formatDate(dateStr) ==
    LET r == ToLocaleString(DateParse(dateStr))
    IN  IF r.threw THEN dateStr ELSE r.value

----------------------------------------------------------------------------
(* index.tsx: the component.  An optional number or object is the empty    *)
(* set when absent and a singleton when present.                           *)

EmptyData ==
    [auth_type |-> Undefined, email |-> Undefined, region |-> Undefined,
     base_url |-> Undefined, expire |-> Undefined, last_refresh |-> Undefined]

\* credential.credential_data || {}
DataOf(c) ==
    IF c.credential_data = {} THEN EmptyData
    ELSE CHOOSE d \in c.credential_data : TRUE

\* data.auth_type || "oauth"
AuthTypeOf(c) == Or(DataOf(c).auth_type, Str("oauth")).s

\* Mutant: the disabled flag is left out of the health signal.
IsHealthy_IgnoresDisabled(c) == c.health_status # Str("unhealthy")

\* !credential.is_disabled && credential.health_status !== "unhealthy"
IsHealthy(c) == ~c.is_disabled /\ c.health_status # Str("unhealthy")

\* credential.usage_count || 0
CountOr0(n) == IF n = {} THEN 0 ELSE CHOOSE k \in n : TRUE

\* Mutant: the row is rendered whenever the field is defined, empty or not.
Row_IfDefined(field, value, text) ==
    IF value # Undefined THEN <<[field |-> field, text |-> text]>> ELSE <<>>

\* {field && <div>...</div>}: one row when the field is truthy, none otherwise.
Row(field, value, text) ==
    IF Truthy(value) THEN <<[field |-> field, text |-> text]>> ELSE <<>>

Button(control, onClick, disabled, icon) ==
    [control |-> control, onClick |-> onClick, disabled |-> disabled, icon |-> icon]

\* Mutant: the spinner is shown but the disabled prop is not passed.
BusyButton_NeverDisabled(control, onClick, busy, icon) ==
    Button(control, onClick, FALSE, IF busy THEN "Loader2" ELSE icon)

\* <Button disabled={busy}>{busy ? <Loader2/> : <Icon/>}</Button>
BusyButton(control, onClick, busy, icon) ==
    Button(control, onClick, busy, IF busy THEN "Loader2" ELSE icon)

Header(c) ==
    LET authType == AuthTypeOf(c)
    IN  [healthIcon |-> IF IsHealthy(c) THEN "CheckCircle" ELSE "XCircle",
         name       |-> Or(c.name, Str("(unnamed credential)")).s,
         idText     |-> Slice(c.uuid, 0, 8) \o <<".", ".", ".">>,
         badge      |-> [className |-> "bg-" \o ToStr(Or(Get(AUTH_TYPE_COLORS, authType),
                                                         Str("gray"))) \o "-50",
                         icon      |-> getAuthTypeIcon(authType),
                         label     |-> Or(Get(AUTH_TYPE_LABELS, authType), Str(authType))],
         switch     |-> [control |-> "toggle", checked |-> ~c.is_disabled,
                         onCheckedChange |-> "onToggle"]]

Content(c) ==
    LET data == DataOf(c)
    IN  [rows      |-> Row("email", data.email, data.email.s)
                       \o Row("region", data.region, data.region.s)
                       \o Row("base_url", data.base_url, data.base_url.s)
                       \o Row("expire", data.expire, formatDate(data.expire.s))
                       \o Row("last_refresh", data.last_refresh,
                              formatDate(data.last_refresh.s)),
         usage     |-> CountOr0(c.usage_count),
         errors    |-> CountOr0(c.error_count),
         lastError |-> Row("last_error", c.last_error, c.last_error.s)]

\* Mutant: an ineligible auth type gets the refresh button disabled, not omitted.
Footer_RefreshDisabledNotOmitted(c, del, chk, ref) ==
    <<Button("edit", "onEdit", FALSE, "Edit"),
      Button("reset", "onReset", FALSE, "RotateCcw"),
      BusyButton("health-check", "onCheckHealth", chk, "Zap"),
      BusyButton("refresh-token", "onRefreshToken",
                 ref \/ ~supportsTokenRefresh(AuthTypeOf(c)), "RefreshCw"),
      BusyButton("delete", "onDelete", del, "Trash2")>>

\* Mutant: the edit and reset buttons carry each other's handler.
Footer_SwappedHandlers(c, del, chk, ref) ==
    <<Button("edit", "onReset", FALSE, "Edit"),
      Button("reset", "onEdit", FALSE, "RotateCcw"),
      BusyButton("health-check", "onCheckHealth", chk, "Zap")>>
    \o (IF supportsTokenRefresh(AuthTypeOf(c))
        THEN <<BusyButton("refresh-token", "onRefreshToken", ref, "RefreshCw")>>
        ELSE <<>>)
    \o <<BusyButton("delete", "onDelete", del, "Trash2")>>

\* Mutant: delete is disabled while any of the three operations is in flight.
Footer_SharedBusy(c, del, chk, ref) ==
    <<Button("edit", "onEdit", FALSE, "Edit"),
      Button("reset", "onReset", FALSE, "RotateCcw"),
      BusyButton("health-check", "onCheckHealth", chk, "Zap")>>
    \o (IF supportsTokenRefresh(AuthTypeOf(c))
        THEN <<BusyButton("refresh-token", "onRefreshToken", ref, "RefreshCw")>>
        ELSE <<>>)
    \o <<BusyButton("delete", "onDelete", del \/ chk \/ ref, "Trash2")>>

Footer(c, del, chk, ref) ==
    <<Button("edit", "onEdit", FALSE, "Edit"),
      Button("reset", "onReset", FALSE, "RotateCcw"),
      BusyButton("health-check", "onCheckHealth", chk, "Zap")>>
    \o (IF supportsTokenRefresh(AuthTypeOf(c))
        THEN <<BusyButton("refresh-token", "onRefreshToken", ref, "RefreshCw")>>
        ELSE <<>>)
    \o <<BusyButton("delete", "onDelete", del, "Trash2")>>

\* The element tree the component returns for its props.
CredentialCard(c, del, chk, ref) ==
    [className |-> IF c.is_disabled THEN "opacity-60" ELSE "",
     header    |-> Header(c),
     content   |-> Content(c),
     footer    |-> Footer(c, del, chk, ref)]

----------------------------------------------------------------------------
(* The inputs the host supplies.                                           *)

BaseCredential ==
    [uuid            |-> <<"c", "9", "f", "1", "-", "4", "a", "2", "e", "7">>,
     name            |-> Str("Work account"),
     is_disabled     |-> FALSE,
     health_status   |-> Undefined,
     usage_count     |-> {},
     error_count     |-> {},
     last_error      |-> Undefined,
     credential_data |-> {}]

AuthTypes ==
    {Undefined, Str(""), Str("oauth"), Str("claude_code"), Str("console"),
     Str("setup_token"), Str("bedrock"), Str("ccr"), Str("unknown_type"),
     Str("constructor")}

HealthStatuses == {Undefined, Str("healthy"), Str("unhealthy"), Str("unknown")}

\* Snapshots that differ in auth type, disabled flag and health status.
CardSnapshots ==
    {[BaseCredential EXCEPT !.credential_data = d, !.is_disabled = dis,
                            !.health_status = h] :
        d \in {{}} \cup {{[EmptyData EXCEPT !.auth_type = a]} : a \in AuthTypes},
        dis \in BOOLEAN, h \in HealthStatuses}

Controls == {"toggle", "edit", "reset", "health-check", "refresh-token", "delete"}

NoProbe == [arg |-> "oauth", ret |-> TRUE]

----------------------------------------------------------------------------
(* The state machine: the host renders the card with new props, the user   *)
(* activates a rendered control.                                           *)

RenderEvent == [kind |-> "render", control |-> "", invoked |-> <<>>]

\* The host supplies props; the component is evaluated once.
Rerender(c, del, chk, ref) ==
    /\ credential' = c
    /\ deleting' = del
    /\ checkingHealth' = chk
    /\ refreshingToken' = ref
    /\ view' = CredentialCard(c, del, chk, ref)
    /\ event' = RenderEvent
    /\ UNCHANGED probe

\* The user toggles the Switch: onCheckedChange={onToggle}.
ActivateSwitch ==
    /\ event' = [kind |-> "activate", control |-> view.header.switch.control,
                 invoked |-> <<view.header.switch.onCheckedChange>>]
    /\ UNCHANGED <<credential, deleting, checkingHealth, refreshingToken, view, probe>>

\* The user clicks the i-th footer Button: a disabled Button swallows the
\* click, an enabled one calls its onClick handler once.
ActivateButton(i) ==
    /\ i \in DOMAIN view.footer
    /\ event' = [kind |-> "activate", control |-> view.footer[i].control,
                 invoked |-> IF view.footer[i].disabled THEN <<>>
                             ELSE <<view.footer[i].onClick>>]
    /\ UNCHANGED <<credential, deleting, checkingHealth, refreshingToken, view, probe>>

InitWith(S, B) ==
    /\ credential \in S
    /\ deleting \in B
    /\ checkingHealth \in B
    /\ refreshingToken \in B
    /\ view = CredentialCard(credential, deleting, checkingHealth, refreshingToken)
    /\ event = RenderEvent
    /\ probe = NoProbe

Init == InitWith(CardSnapshots, BOOLEAN)

\* The host re-renders with another snapshot of the credential.
RenderCredential(S) ==
    \E c \in S : Rerender(c, deleting, checkingHealth, refreshingToken)

\* The host re-renders with other busy flags.
RenderBusy ==
    \E del, chk, ref \in BOOLEAN : Rerender(credential, del, chk, ref)

Render == RenderCredential(CardSnapshots) \/ RenderBusy

Activate == ActivateSwitch \/ \E i \in 1..5 : ActivateButton(i)

Next == Render \/ Activate

Spec == Init /\ [][Next]_vars

----------------------------------------------------------------------------
(* The body of the card: the optional rows, the counters, the last error.  *)

ValidDate == <<"2", "0", "2", "5", "-", "0", "3", "-", "0", "9", "T",
               "1", "4", ":", "0", "5", ":", "0", "0">>

Counts == {{}} \cup {{n} : n \in 0..MaxCount}

BodyData ==
    {{}} \cup
    {{[EmptyData EXCEPT !.email = e, !.region = r, !.base_url = b,
                        !.expire = x, !.last_refresh = l]} :
        e \in {Undefined, Str(""), Str("dev@example.com")},
        r \in {Undefined, Str("us-east-1")},
        b \in {Undefined, Str("https://relay.example.com")},
        x \in {Undefined, Str(<<>>), Str(ValidDate)},
        l \in {Undefined, Str(ValidDate)}}

LastErrors == {Undefined, Str(""), Str("401 Unauthorized")}

\* The host re-renders after the credential's data changed.
RenderData ==
    \E d \in BodyData :
        Rerender([credential EXCEPT !.credential_data = d],
                 deleting, checkingHealth, refreshingToken)

\* The host re-renders after the credential's statistics changed.
RenderStats ==
    \E u \in Counts, e \in Counts, le \in LastErrors :
        Rerender([credential EXCEPT !.usage_count = u, !.error_count = e,
                                    !.last_error = le],
                 deleting, checkingHealth, refreshingToken)

InitBody == InitWith({BaseCredential}, {FALSE})

NextBody == RenderData \/ RenderStats

SpecBody == InitBody /\ [][NextBody]_vars

----------------------------------------------------------------------------
(* Dates: the expire and last_refresh rows over well-formed and malformed  *)
(* date strings.                                                           *)

IsoDate(month, day, hour, minute) ==
    <<"2", "0", "2", "5", "-">> \o Pad2(month) \o <<"-">> \o Pad2(day) \o <<"T">>
    \o Pad2(hour) \o <<":">> \o Pad2(minute) \o <<":", "0", "0">>

WellFormedDates ==
    {IsoDate(mo, d, h, mi) : mo \in {1, 12}, d \in {2, 28}, h \in {0, 23}, mi \in {4, 59}}

MalformedDates ==
    {<<"n", "o", "t", "-", "a", "-", "d", "a", "t", "e">>,
     <<"s", "o", "o", "n">>,
     <<"2", "0", "2", "5">> \o <<"/", "?", "?">>,
     InvalidDate,
     IsoDate(13, 2, 0, 4), IsoDate(0, 2, 0, 4), IsoDate(1, 0, 0, 4),
     IsoDate(1, 2, 24, 4), IsoDate(1, 2, 0, 60)}

DateValues == {Undefined} \cup {Str(s) : s \in WellFormedDates \cup MalformedDates}

\* Snapshots that differ in their expire and last_refresh values.
DateSnapshots ==
    {[BaseCredential EXCEPT !.credential_data =
          {[EmptyData EXCEPT !.expire = x, !.last_refresh = l]}] :
        x \in DateValues, l \in DateValues}

InitDate == InitWith(DateSnapshots, {FALSE})

NextDate == RenderBusy

SpecDate == InitDate /\ [][NextDate]_vars

----------------------------------------------------------------------------
(* Identifiers of every length up to MaxIdLen.                             *)

IdAlphabet == {"a", "7"}

RECURSIVE IdsOfLen(_)
IdsOfLen(n) ==
    IF n = 0 THEN {<<>>}
    ELSE {Append(s, ch) : s \in IdsOfLen(n - 1), ch \in IdAlphabet}

Ids == UNION {IdsOfLen(n) : n \in 0..MaxIdLen}

\* Snapshots that differ in their uuid.
IdSnapshots == {[BaseCredential EXCEPT !.uuid = u] : u \in Ids}

InitId == InitWith(IdSnapshots, {FALSE})

NextId == RenderBusy

SpecId == InitId /\ [][NextId]_vars

----------------------------------------------------------------------------
(* supportsTokenRefresh applied to arbitrary strings.                      *)

Fragments ==
    {"", "oauth", "claude_code", "claude_", "code", "console", "setup_token",
     "bedrock", "ccr", "unknown_type", "constructor", " ", "OAuth", "o"}

ProbeStrings == {a \o b : a \in Fragments, b \in Fragments}

CallSupportsTokenRefresh(s) ==
    /\ probe' = [arg |-> s, ret |-> supportsTokenRefresh(s)]
    /\ UNCHANGED <<credential, deleting, checkingHealth, refreshingToken, view, event>>

InitGate == InitWith({BaseCredential}, {FALSE})

NextGate == \E s \in ProbeStrings : CallSupportsTokenRefresh(s)

SpecGate == InitGate /\ [][NextGate]_vars

----------------------------------------------------------------------------
(* Properties.                                                             *)

RawAuthType == DataOf(credential).auth_type

FooterControls == {view.footer[i].control : i \in DOMAIN view.footer}

ButtonFor(control) ==
    view.footer[CHOOSE i \in DOMAIN view.footer : view.footer[i].control = control]

Invoked(callback) == \E i \in DOMAIN event.invoked : event.invoked[i] = callback

\* C1: the health icon is the healthy one exactly when the credential is not
\* disabled and its health status is not "unhealthy": a disabled credential
\* always gets the unhealthy icon, an enabled one whose status is absent or
\* anything but "unhealthy" always gets the healthy icon.
C1_HealthSignal ==
    /\ credential.is_disabled => view.header.healthIcon = "XCircle"
    /\ (~credential.is_disabled /\ credential.health_status \in HealthStatuses \ {Str("unhealthy")})
           => view.header.healthIcon = "CheckCircle"
    /\ (~credential.is_disabled /\ credential.health_status = Str("unhealthy"))
           => view.header.healthIcon = "XCircle"

C1_Witness ==
    /\ credential.is_disabled
    /\ credential.health_status = Str("healthy")
    /\ view.header.healthIcon = "XCircle"

RefreshEligible == {Str("oauth"), Str("claude_code"), Str("console")}

\* C2 as stated: onRefreshToken is invoked only for a credential whose auth
\* type is oauth, claude_code or console or is absent, and for every other
\* auth type the refresh-token control is not in the card.
C2_AsStated ==
    /\ Invoked("onRefreshToken") => RawAuthType \in RefreshEligible \cup {Undefined}
    /\ RawAuthType \notin RefreshEligible \cup {Undefined}
           => "refresh-token" \notin FooterControls

\* C2 amended: onRefreshToken is invoked only for a credential whose auth type
\* is oauth, claude_code or console or is absent or the empty string, and for
\* every other auth type the refresh-token control is not in the card (rather
\* than in it and disabled).
C2_RefreshOnlyWhenEligible ==
    /\ Invoked("onRefreshToken")
           => RawAuthType \in RefreshEligible \cup {Undefined, Str("")}
    /\ RawAuthType \notin RefreshEligible \cup {Undefined, Str("")}
           => "refresh-token" \notin FooterControls

C2_Witness ==
    /\ RawAuthType = Str("bedrock")
    /\ event.kind = "activate"
    /\ "refresh-token" \notin FooterControls
    /\ Len(view.footer) = 4

BusyFlag(control) ==
    CASE control = "health-check"  -> checkingHealth
      [] control = "refresh-token" -> refreshingToken
      [] control = "delete"        -> deleting
      [] OTHER                     -> FALSE

StaticIcon ==
    [edit |-> "Edit", reset |-> "RotateCcw", delete |-> "Trash2"]
    @@ ("health-check" :> "Zap") @@ ("refresh-token" :> "RefreshCw")

OwnCallback ==
    [toggle |-> "onToggle", edit |-> "onEdit", reset |-> "onReset",
     delete |-> "onDelete"]
    @@ ("health-check" :> "onCheckHealth") @@ ("refresh-token" :> "onRefreshToken")

\* C3: while a busy flag is true its control is disabled, shows the spinner,
\* and an activation of it invokes nothing; while the flag is false the control
\* is enabled, shows its static icon, and an activation invokes its callback.
C3_BusyBlocks ==
    /\ \A control \in FooterControls \cap {"health-check", "refresh-token", "delete"} :
          /\ ButtonFor(control).disabled = BusyFlag(control)
          /\ ButtonFor(control).icon =
                 IF BusyFlag(control) THEN "Loader2" ELSE StaticIcon[control]
    /\ (event.kind = "activate" /\ event.control \in {"health-check", "refresh-token", "delete"})
           => event.invoked = IF BusyFlag(event.control) THEN <<>>
                              ELSE <<OwnCallback[event.control]>>

C3_Witness ==
    /\ checkingHealth
    /\ event.kind = "activate"
    /\ event.control = "health-check"
    /\ event.invoked = <<>>
    /\ ButtonFor("health-check").icon = "Loader2"

C10_BusyFlagFrame ==
    /\ view.header.switch.control = "toggle"
    /\ {"edit", "reset", "health-check", "delete"} \subseteq FooterControls
    /\ FooterControls \subseteq {"edit", "reset", "health-check", "refresh-token", "delete"}
    /\ ~ButtonFor("edit").disabled
    /\ ~ButtonFor("reset").disabled
    /\ (event.kind = "activate" /\ event.control = "toggle") => event.invoked = <<"onToggle">>
    /\ ButtonFor("health-check").disabled = checkingHealth
    /\ ButtonFor("delete").disabled = deleting
    /\ "refresh-token" \in FooterControls
           => ButtonFor("refresh-token").disabled = refreshingToken

C10_Witness ==
    /\ checkingHealth /\ ~deleting /\ refreshingToken
    /\ credential.is_disabled
    /\ RawAuthType = Str("console")
    /\ ~ButtonFor("delete").disabled
    /\ ButtonFor("health-check").disabled
    /\ ButtonFor("refresh-token").disabled

\* C4: supportsTokenRefresh is true for exactly the strings oauth, claude_code
\* and console; it is false for every other string, the empty string,
\* setup_token, bedrock, ccr and unknown values among them.
C4_ExactlyThree ==
    /\ probe.arg \in {"oauth", "claude_code", "console"} => probe.ret
    /\ probe.arg \notin {"oauth", "claude_code", "console"} => ~probe.ret
    /\ probe.arg \in {"", "setup_token", "bedrock", "ccr", "unknown_type"} => ~probe.ret

C4_Witness ==
    /\ probe.arg = ""
    /\ ~probe.ret

KnownBadges ==
    [oauth       |-> [label |-> "OAuth",       icon |-> "Key",      color |-> "blue"],
     claude_code |-> [label |-> "Claude Code", icon |-> "Terminal", color |-> "purple"],
     console     |-> [label |-> "Console",     icon |-> "Building", color |-> "green"],
     setup_token |-> [label |-> "Setup Token", icon |-> "Lock",     color |-> "yellow"],
     bedrock     |-> [label |-> "Bedrock",     icon |-> "Cloud",    color |-> "orange"],
     ccr         |-> [label |-> "CCR",         icon |-> "Server",   color |-> "gray"]]

BadgeIs(entry) ==
    /\ view.header.badge.label = Str(entry.label)
    /\ view.header.badge.icon = entry.icon
    /\ view.header.badge.className = "bg-" \o entry.color \o "-50"

\* C5: for every auth type the badge has a non-empty text label, an icon and a
\* colour; an absent auth type gives the oauth entry; each of the six known
\* keys gives its table entry; every other string gives the key icon, the gray
\* colour and the raw string as the label.  (The empty string is left to the
\* first clause alone: a label equal to it could not be non-empty.)
C5_ClassifyAgreesWithTable ==
    /\ view.header.badge.label.t = "string"
    /\ Len(view.header.badge.label.s) > 0
    /\ RawAuthType = Undefined => BadgeIs(KnownBadges["oauth"])
    /\ (RawAuthType.t = "string" /\ RawAuthType.s \in DOMAIN KnownBadges)
           => BadgeIs(KnownBadges[RawAuthType.s])
    /\ (RawAuthType.t = "string" /\ RawAuthType.s \notin DOMAIN KnownBadges \cup {""})
           => BadgeIs([label |-> RawAuthType.s, icon |-> "Key", color |-> "gray"])

DateRows ==
    {r \in {view.content.rows[i] : i \in DOMAIN view.content.rows} :
        r.field \in {"expire", "last_refresh"}}

\* C6: an expire or last_refresh value that does not parse as a date is shown
\* as its raw text, unchanged.
C6_MalformedDateShownRaw ==
    \A r \in DateRows :
        DataOf(credential)[r.field].s \in MalformedDates
            => r.text = DataOf(credential)[r.field].s

FieldOrder == <<"email", "region", "base_url", "expire", "last_refresh">>

RowFields == [i \in DOMAIN view.content.rows |-> view.content.rows[i].field]

Position(field) == CHOOSE i \in DOMAIN FieldOrder : FieldOrder[i] = field

RowsInOrder ==
    /\ \A i \in DOMAIN RowFields : \E k \in DOMAIN FieldOrder : FieldOrder[k] = RowFields[i]
    /\ \A i, j \in DOMAIN RowFields :
           i < j => Position(RowFields[i]) < Position(RowFields[j])

CountersShown ==
    /\ view.content.usage =
           IF credential.usage_count = {} THEN 0
           ELSE CHOOSE n \in 0..MaxCount : credential.usage_count = {n}
    /\ view.content.errors =
           IF credential.error_count = {} THEN 0
           ELSE CHOOSE n \in 0..MaxCount : credential.error_count = {n}

Rendered(field) == \E i \in DOMAIN RowFields : RowFields[i] = field

\* C8 as stated: each of the five fact rows is rendered exactly when its field
\* is present in credentialData, the rendered rows are in the fixed order, the
\* two counters are always shown (0 when absent), and the last-error text is
\* rendered exactly when lastError is present.
C8_AsStated ==
    /\ \A k \in DOMAIN FieldOrder :
           Rendered(FieldOrder[k]) <=> DataOf(credential)[FieldOrder[k]] # Undefined
    /\ RowsInOrder
    /\ CountersShown
    /\ (view.content.lastError # <<>>) <=> (credential.last_error # Undefined)

\* C8 amended: each of the five fact rows is rendered exactly when its field is
\* present and not the empty string, the rendered rows are in the fixed order,
\* the two counters are always shown (0 when absent), and the last-error text
\* is rendered exactly when lastError is present and not the empty string.
C8_BodyRows ==
    /\ \A k \in DOMAIN FieldOrder :
           Rendered(FieldOrder[k])
               <=> /\ DataOf(credential)[FieldOrder[k]] # Undefined
                   /\ Len(DataOf(credential)[FieldOrder[k]].s) > 0
    /\ RowsInOrder
    /\ CountersShown
    /\ (view.content.lastError # <<>>)
           <=> (credential.last_error # Undefined /\ credential.last_error.s # "")

C8_Witness ==
    /\ RowFields = <<"region", "expire", "last_refresh">>
    /\ DataOf(credential).email = Str("")
    /\ DataOf(credential).base_url = Undefined
    /\ credential.usage_count = {} /\ view.content.usage = 0
    /\ credential.error_count = {MaxCount} /\ view.content.errors = MaxCount
    /\ credential.last_error = Str("") /\ view.content.lastError = <<>>

\* C9: the displayed identifier is the first 8 characters of the uuid followed
\* by "..." when the uuid has 8 characters or more, and the whole uuid followed
\* by "..." when it has fewer; the "..." is always there.
C9_TruncatedId ==
    LET uuid == credential.uuid
        kept == IF Len(uuid) >= 8 THEN 8 ELSE Len(uuid)
    IN  /\ Len(view.header.idText) = kept + 3
        /\ \A i \in 1..kept : view.header.idText[i] = uuid[i]
        /\ \A i \in (kept + 1)..(kept + 3) : view.header.idText[i] = "."

C9_Witness ==
    /\ Len(credential.uuid) > 8
    /\ Len(view.header.idText) = 11
    /\ view.header.idText[8] = credential.uuid[8]

====
